---- MODULE Spec2Model ----
(***************************************************************************)
(* Model of dataserv_client/builder.py: the Builder class that derives the *)
(* seed chain of a farmer address, generates / resumes / repairs the shard *)
(* files of the range [0, target_height) through a worker pool, and audits *)
(* one block of shards.                                                    *)
(*                                                                         *)
(* Strings and byte strings are sequences of naturals.  SHA-256 is an      *)
(* ideal hash: an injective, self-delimiting encoding of its input, so     *)
(* that concatenating digests is injective, as it is for the fixed-width   *)
(* hex digests of the program.                                             *)
(***************************************************************************)
EXTENDS Integers, Sequences, FiniteSets, TLC

(* ------------------------------ bounds --------------------------------- *)
\* shard size in bytes (constructor argument shard_size)
ShardSize == 2
\* number of whole shards that fit in max_size
MaxShards == 3
\* largest number of worker threads a build is started with
MaxWorkers == 2
\* capacity of the pool's task queue
QueueCap == 1
\* number of shards per audit block (common.DEFAULT_BLOCK_SIZE)
BlockSize == 2
\* largest block position the oracle heights of the model select
MaxBlockPos == 2

(* ------------------------ constructor arguments ------------------------ *)
address == <<0>>
shard_size == ShardSize
\* not a multiple of shard_size, so that the division below rounds
max_size == MaxShards * ShardSize + 1
min_free_size == max_size

\* Builder.__init__: self.target_height = int(max_size / shard_size)
target_height == max_size \div shard_size

Heights == 0 .. (target_height - 1)

(* ----------------------------- seed chain ------------------------------ *)
\* Builder.sha256 / hashlib.sha256(..).hexdigest()
sha256(content) == <<Len(content)>> \o content

\* lines 47-50 made to hash the address again at every height
_build_all_seeds_rehash(height) ==
    [i \in 1 .. (height + 1) |-> sha256(address)]

RECURSIVE _build_all_seeds(_)
\* Includes the seed for height 0: height + 1 seeds.
_build_all_seeds(height) ==
    IF height = 0
    THEN <<sha256(address)>>
    ELSE LET seeds == _build_all_seeds(height - 1)
         IN  Append(seeds, sha256(seeds[Len(seeds)]))

build_seeds(height) == SubSeq(_build_all_seeds(height), 1, height)

build_seed(height) ==
    LET seeds == _build_all_seeds(height) IN seeds[Len(seeds)]

\* list(enumerate(self.build_seeds(self.target_height))): height h is at h+1
enum_seeds == build_seeds(target_height)

Max(a, b) == IF a >= b THEN a ELSE b

(* ----------------------------- shard store ----------------------------- *)
\* oracle heights handed to audit, and the block positions they select
block_pos_of(btc_index) == btc_index % 1000
OracleHeights == (0 .. MaxBlockPos) \cup {1000, 1000 + MaxBlockPos}
\* every height whose path some operation may look at
AllHeights == 0 .. (Max((MaxBlockPos + 1) * BlockSize, target_height) - 1)
\* the seed chain over those heights, and the seed of the shard at height h
ChainSeeds == build_seeds(Cardinality(AllHeights))
SeedAt(h) == ChainSeeds[h + 1]

\* _get_shard_path with use_folder_tree = False: the file is named by the seed
_get_shard_path(seed) == seed
Paths == {_get_shard_path(SeedAt(h)) : h \in AllHeights}
PathAt(h) == _get_shard_path(SeedAt(h))
HeightOf(path) == CHOOSE h \in AllHeights : PathAt(h) = path

NoFile == <<-1>>

\* RandomIO.RandomIO(seed).genfile(size, path): size bytes determined by seed
genfile(seed, size) == [i \in 1 .. size |-> seed[((i - 1) % Len(seed)) + 1]]
\* a file cut short by an interrupted write
Truncated(seed) == genfile(seed, shard_size - 1)
\* a file of the right size whose content is not the seed's
Corrupted(seed) ==
    <<genfile(seed, shard_size)[1] + 128>>
        \o SubSeq(genfile(seed, shard_size), 2, shard_size)

\* the file generate_shard leaves for height h
Complete(h) == genfile(SeedAt(h), shard_size)

exists(st, path) == st[path] # NoFile
getsize(st, path) == IF st[path] = NoFile THEN 0 ELSE Len(st[path])

(* ------------------------------- state --------------------------------- *)
VARIABLES
    store,        \* file system under store_path: path -> bytes, or NoFile
    free,         \* psutil.disk_usage(store_path).free
    workers,      \* build argument: number of pool threads
    cleanup,      \* build argument
    rebuild,      \* build argument
    repair,       \* build argument
    pc,           \* position of the thread that runs build
    shard_num,    \* loop variable of the loop build is in
    last_height,  \* local of build
    generated,    \* keys of the dict build accumulates (seeds)
    returned,     \* the dict build returned (empty until pc = "done")
    progress,     \* calls of on_generate_shard so far: <<height, finished>>
    queue,        \* pool: submitted tasks no worker has taken yet
    task,         \* pool: stage of the generate_shard task of each height
    file_hash,    \* value computed by the generate_shard task of each height
    ioFailures,   \* IOErrors raised so far
    store0,       \* history: the store when build was called
    resume,       \* history: value filter_to_resume_point returned, or -1
    submitted,    \* history: tasks handed to add_task: <<phase, height>>
    written,      \* history: heights whose file a task wrote to
    removed,      \* history: heights whose file a task removed
    stopAt,       \* history: height of the failed free-space check, or -1
    interruptAt,  \* history: height the loop was at when interrupted, or -1
    audit_log,    \* calls of audit: oracle height, store audited, result
    call_log,     \* calls of the other operations, with what they returned
    cache_file,   \* bandwidth_test: content of the file at cache_path
    total_files,  \* downloadSpeed / uploadSpeed: number of inputs
    q,            \* the Queue(6) of started transfer threads
    finished,     \* results the consumer has appended
    speed_pc,     \* position of the thread that called the function
    producer_pc,  \* position of prod_thread
    consumer_pc,  \* position of cons_thread
    file_idx,     \* producer: index of the input its loop is at
    thread,       \* consumer: the thread it took from q, or 0
    alive         \* transfer threads whose run() has not returned

args == <<workers, cleanup, rebuild, repair>>
mainvars == <<pc, shard_num, last_height, generated, returned, progress>>
poolvars == <<queue, task, file_hash>>
envvars == <<store, free, ioFailures>>
histvars == <<store0, resume, submitted, written, removed,
              stopAt, interruptAt>>
speedvars == <<total_files, q, finished, speed_pc, producer_pc, consumer_pc,
               file_idx, thread, alive>>
logvars == <<audit_log, call_log, cache_file, speedvars>>
vars == <<args, mainvars, poolvars, envvars, histvars, logvars>>

\* neither downloadSpeed nor uploadSpeed has been called
NoTransfer ==
    /\ total_files = 0
    /\ q = <<>>
    /\ finished = <<>>
    /\ speed_pc = "idle"
    /\ producer_pc = "idle"
    /\ consumer_pc = "idle"
    /\ file_idx = 0
    /\ thread = 0
    /\ alive = {}

NoHash == <<-1>>
\* no file at cache_path
NoCache == [kind |-> "absent",
            download |-> [t |-> "missing", v |-> 0],
            upload |-> [t |-> "missing", v |-> 0]]
EmptyDict == [seed \in {} |-> NoHash]

\* a shard file as left by earlier runs: absent, complete or cut short
FileStates(h) ==
    <<NoFile, Complete(h), Truncated(SeedAt(h))>>

\* the stores a build may find: anything in [0, target_height), nothing above
BuildStores ==
    {[path \in Paths |->
        IF HeightOf(path) \in Heights
        THEN FileStates(HeightOf(path))[kind[HeightOf(path)]]
        ELSE NoFile] : kind \in [Heights -> 1 .. 3]}

\* free space when build is called: at the floor, a little above, plenty
FreeChoices ==
    {min_free_size + k * shard_size : k \in {0, 2, target_height + 2}}

(* ------------------------- filter_to_resume_point ---------------------- *)
RECURSIVE bisect_left(_, _, _, _)
\* bisect.bisect_left(seeds, HackedCompareObject()): seeds[mid] < x is
\* x.__gt__(seeds[mid]), that is os.path.exists(path of seeds[mid])
bisect_left(st, seeds, lo, hi) ==
    IF lo < hi
    THEN LET mid == (lo + hi) \div 2
         IN  IF exists(st, _get_shard_path(seeds[mid + 1]))
             THEN bisect_left(st, seeds, mid + 1, hi)
             ELSE bisect_left(st, seeds, lo, mid)
    ELSE lo

\* the search stops one short of the end of the list
filter_to_resume_point_short(st, seeds) ==
    bisect_left(st, seeds, 0, Len(seeds) - 1)
\* the search starts above the first seed
filter_to_resume_point_from_one(st, seeds) ==
    bisect_left(st, seeds, 1, Len(seeds))
\* the search replaced by a scan for the lowest height without a file
filter_to_resume_point_scan(st, seeds) ==
    LET absent == {i \in 1 .. Len(seeds) :
                      ~exists(st, _get_shard_path(seeds[i]))}
    IN  IF absent = {}
        THEN Len(seeds)
        ELSE (CHOOSE i \in absent : \A j \in absent : i <= j) - 1
filter_to_resume_point(st, seeds) == bisect_left(st, seeds, 0, Len(seeds))

(* ------------------------------ the pool ------------------------------- *)
Running == {"write", "retry", "written"}
\* the pool is followed as long as build has not been left by an exception
Raised == pc \in {"raised_ioerror", "raised_interrupt"}
\* pool.active_count(): workers that are executing a task
active_count == Cardinality({h \in Heights : task[h] \in Running})
\* pool.wait_completion() returns when no task is queued or executing
PoolIdle == queue = <<>> /\ active_count = 0
\* pool.add_task blocks while the task queue is full
CanAdd == Len(queue) < QueueCap

\* line 147: free - shard_size * (active_count + 1) < min_free_size
BelowFloor == free - (shard_size * (active_count + 1)) < min_free_size

\* pool.add_task(self.generate_shard, seed, store_path, cleanup)
add_task(phase, h) ==
    /\ CanAdd
    /\ queue' = Append(queue, h)
    /\ task' = [task EXCEPT ![h] = "queued"]
    /\ submitted' = Append(submitted, <<phase, h>>)

\* where a for loop over enum_seeds[i:] goes when it is at index i
RepairPc(i, lh) == IF i < lh THEN "repair" ELSE "repair_wait"
GenPc(i) == IF i < target_height THEN "gen_check" ELSE "drain"

\* the size of an existing file is not looked at
NeedsRepair_exists_only(st, path) == ~exists(st, path)
\* the test is inverted: sound shards are the ones regenerated
NeedsRepair_inverted(st, path) ==
    exists(st, path) /\ getsize(st, path) = shard_size
\* line 140: not (os.path.exists(path) and getsize(path) == shard_size)
NeedsRepair(st, path) ==
    ~(exists(st, path) /\ getsize(st, path) = shard_size)

\* lines 198-200 made to ask for a complete file
checkup_sized(st) ==
    \A i \in 1 .. Len(build_seeds(target_height)) :
        /\ exists(st, _get_shard_path(build_seeds(target_height)[i]))
        /\ getsize(st, _get_shard_path(build_seeds(target_height)[i]))
               = shard_size

\* Builder.checkup: every seed of build_seeds(target_height) has a file
checkup(st) ==
    \A i \in 1 .. Len(build_seeds(target_height)) :
        exists(st, _get_shard_path(build_seeds(target_height)[i]))

(* ------------------------------- build --------------------------------- *)
Init ==
    /\ store \in BuildStores
    /\ free \in FreeChoices
    /\ workers \in 1 .. MaxWorkers
    /\ cleanup \in BOOLEAN
    /\ rebuild \in BOOLEAN
    /\ repair \in BOOLEAN
    /\ pc = "start"
    /\ shard_num = 0
    /\ last_height = 0
    /\ generated = {}
    /\ returned = EmptyDict
    /\ progress = <<>>
    /\ queue = <<>>
    /\ task = [h \in Heights |-> "none"]
    /\ file_hash = [h \in Heights |-> NoHash]
    /\ ioFailures = 0
    /\ store0 = store
    /\ resume = -1
    /\ submitted = <<>>
    /\ written = {}
    /\ removed = {}
    /\ stopAt = -1
    /\ interruptAt = -1
    /\ audit_log = <<>>
    /\ call_log = <<>>
    /\ NoTransfer
    /\ cache_file = NoCache

\* lines 132-134 with the resume point computed whatever rebuild is
Start_resume_on_rebuild ==
    /\ pc = "start"
    /\ LET lh == filter_to_resume_point(store, enum_seeds)
       IN  /\ last_height' = lh
           /\ resume' = lh
           /\ IF ~rebuild /\ repair
              THEN pc' = RepairPc(0, lh) /\ shard_num' = 0
              ELSE pc' = GenPc(lh) /\ shard_num' = lh
    /\ UNCHANGED <<logvars, args, generated, returned, progress, poolvars,
                   envvars, store0, submitted, written, removed, stopAt,
                   interruptAt>>

\* lines 128-137: locals, the resume point, entry into the first loop
Start ==
    /\ pc = "start"
    /\ LET lh == IF rebuild THEN 0
                 ELSE filter_to_resume_point(store, enum_seeds)
       IN  /\ last_height' = lh
           /\ resume' = IF rebuild THEN -1 ELSE lh
           /\ IF ~rebuild /\ repair
              THEN pc' = RepairPc(0, lh) /\ shard_num' = 0
              ELSE pc' = GenPc(lh) /\ shard_num' = lh
    /\ UNCHANGED <<logvars, args, generated, returned, progress, poolvars,
                   envvars, store0, submitted, written, removed, stopAt,
                   interruptAt>>

\* lines 138-142: one iteration of the repair loop
RepairStep ==
    /\ pc = "repair"
    /\ LET path == _get_shard_path(enum_seeds[shard_num + 1])
       IN  IF NeedsRepair(store, path)
           THEN add_task("repair", shard_num)
           ELSE UNCHANGED <<queue, task, submitted>>
    /\ shard_num' = shard_num + 1
    /\ pc' = RepairPc(shard_num + 1, last_height)
    /\ UNCHANGED <<logvars, args, last_height, generated, returned,
                   progress, file_hash, envvars, store0, resume, written,
                   removed, stopAt, interruptAt>>

\* the repair pass without the wait_completion of line 143
RepairWait_no_wait ==
    /\ pc = "repair_wait"
    /\ pc' = GenPc(last_height)
    /\ shard_num' = last_height
    /\ UNCHANGED <<logvars, args, last_height, generated, returned,
                   progress, poolvars, envvars, histvars>>

\* line 143: pool.wait_completion(), then the header of the loop of line 145
RepairWait ==
    /\ pc = "repair_wait"
    /\ PoolIdle
    /\ pc' = GenPc(last_height)
    /\ shard_num' = last_height
    /\ UNCHANGED <<logvars, args, last_height, generated, returned,
                   progress, poolvars, envvars, histvars>>

\* the stop records the height after the one that was refused
GenCheck_next_height ==
    /\ pc = "gen_check"
    /\ IF BelowFloor
       THEN /\ last_height' = shard_num + 1
            /\ stopAt' = shard_num
            /\ pc' = "drain"
       ELSE /\ pc' = "gen_submit"
            /\ UNCHANGED <<last_height, stopAt>>
    /\ UNCHANGED <<logvars, args, shard_num, generated, returned, progress,
                   poolvars, envvars, store0, resume, submitted, written,
                   removed, interruptAt>>
\* lines 147-151: the free-space check
GenCheck ==
    /\ pc = "gen_check"
    /\ IF BelowFloor
       THEN /\ last_height' = shard_num
            /\ stopAt' = shard_num
            /\ pc' = "drain"
       ELSE /\ pc' = "gen_submit"
            /\ UNCHANGED <<last_height, stopAt>>
    /\ UNCHANGED <<logvars, args, shard_num, generated, returned, progress,
                   poolvars, envvars, store0, resume, submitted, written,
                   removed, interruptAt>>

\* line 153: pool.add_task
GenSubmit ==
    /\ pc = "gen_submit"
    /\ add_task("generate", shard_num)
    /\ pc' = "gen_record"
    /\ UNCHANGED <<logvars, args, shard_num, last_height, generated,
                   returned, progress, file_hash, envvars, store0, resume,
                   written, removed, stopAt, interruptAt>>

\* lines 155-162 with last_height = shard_num at line 160
GenRecord_no_increment ==
    /\ pc = "gen_record"
    /\ generated' = generated \cup {enum_seeds[shard_num + 1]}
    /\ last_height' = shard_num
    /\ progress' = Append(progress, <<shard_num + 1, FALSE>>)
    /\ shard_num' = shard_num + 1
    /\ pc' = GenPc(shard_num + 1)
    /\ UNCHANGED <<logvars, args, returned, poolvars, envvars, histvars>>

\* lines 155-162: generated[seed] = file_hash; last_height = shard_num + 1;
\* on_generate_shard(shard_num + 1, False); next iteration
GenRecord ==
    /\ pc = "gen_record"
    /\ generated' = generated \cup {enum_seeds[shard_num + 1]}
    /\ last_height' = shard_num + 1
    /\ progress' = Append(progress, <<shard_num + 1, FALSE>>)
    /\ shard_num' = shard_num + 1
    /\ pc' = GenPc(shard_num + 1)
    /\ UNCHANGED <<logvars, args, returned, poolvars, envvars, histvars>>

\* lines 164-167: KeyboardInterrupt raised inside the try block
Interrupt ==
    /\ pc \in {"gen_check", "gen_submit", "gen_record"}
    /\ interruptAt = -1
    /\ last_height' = shard_num + 1
    /\ interruptAt' = shard_num
    /\ pc' = "drain"
    /\ UNCHANGED <<logvars, args, shard_num, generated, returned, progress,
                   poolvars, envvars, store0, resume, submitted, written,
                   removed, stopAt>>

\* KeyboardInterrupt raised outside the try block leaves build
InterruptOutside ==
    /\ pc \in {"repair", "repair_wait", "drain"}
    /\ interruptAt = -1
    /\ pc' = "raised_interrupt"
    /\ UNCHANGED <<logvars, args, shard_num, last_height, generated,
                   returned, progress, poolvars, envvars, histvars>>

\* lines 170-173 without the wait_completion of line 169
Drain_no_wait ==
    /\ pc = "drain"
    /\ progress' = Append(progress, <<last_height, TRUE>>)
    /\ returned' = [seed \in generated |-> file_hash[HeightOf(seed)]]
    /\ pc' = "done"
    /\ UNCHANGED <<logvars, args, shard_num, last_height, generated,
                   poolvars, envvars, histvars>>

\* lines 169-173: wait_completion, the final callback, return generated
Drain ==
    /\ pc = "drain"
    /\ PoolIdle
    /\ progress' = Append(progress, <<last_height, TRUE>>)
    /\ returned' = [seed \in generated |-> file_hash[HeightOf(seed)]]
    /\ pc' = "done"
    /\ UNCHANGED <<logvars, args, shard_num, last_height, generated,
                   poolvars, envvars, histvars>>

(* --------------------------- generate_shard ---------------------------- *)
\* a pool thread takes the oldest queued task
TaskStart(h) ==
    /\ ~Raised
    /\ queue # <<>>
    /\ h = Head(queue)
    /\ active_count < workers
    /\ queue' = Tail(queue)
    /\ task' = [task EXCEPT ![h] = "write"]
    /\ UNCHANGED <<logvars, args, mainvars, file_hash, envvars, histvars>>

\* the store and the free space after path is set to data
WriteFile(path, data) ==
    /\ store' = [store EXCEPT ![path] = data]
    /\ free' = free - (Len(data) - getsize(store, path))

\* lines 83 and 88: genfile succeeds
TaskWrite(h) ==
    /\ ~Raised
    /\ task[h] \in {"write", "retry"}
    /\ WriteFile(PathAt(h), genfile(SeedAt(h), shard_size))
    /\ task' = [task EXCEPT ![h] = "written"]
    /\ written' = written \cup {h}
    /\ UNCHANGED <<logvars, args, mainvars, queue, file_hash, ioFailures,
                   store0, resume, submitted, removed, stopAt, interruptAt>>

\* lines 82-88 made to try again after every IOError
AfterIOError_retry_always(stage) == "retry"

\* lines 82-88: an IOError of the first genfile is caught and genfile is
\* called once more; an IOError of that second call leaves generate_shard
AfterIOError(stage) == IF stage = "write" THEN "retry" ELSE "failed"

\* an exception leaving a task of the pool is raised in build: the pass ends
\* there, nothing is enqueued, reported or returned afterwards
task_raised == pc' = "raised_ioerror"

\* lines 83-88: genfile raises IOError and leaves the file cut short.  The
\* IOErrors of one run hit one task.
TaskWriteFail(h) ==
    /\ ~Raised
    /\ task[h] \in {"write", "retry"}
    /\ ioFailures = 0 \/ task[h] = "retry"
    /\ ioFailures' = ioFailures + 1
    /\ WriteFile(PathAt(h), Truncated(SeedAt(h)))
    /\ written' = written \cup {h}
    /\ task' = [task EXCEPT ![h] = AfterIOError(task[h])]
    /\ IF AfterIOError(task[h]) = "failed"
       THEN task_raised
       ELSE UNCHANGED pc
    /\ UNCHANGED <<logvars, args, shard_num, last_height, generated,
                   returned, progress, queue, file_hash, store0, resume,
                   submitted, removed, stopAt, interruptAt>>

\* lines 91-98: read the file back, hash it, remove it if cleanup
TaskFinish(h) ==
    /\ ~Raised
    /\ task[h] = "written"
    /\ file_hash' = [file_hash EXCEPT ![h] = sha256(store[PathAt(h)])]
    /\ IF cleanup
       THEN /\ store' = [store EXCEPT ![PathAt(h)] = NoFile]
            /\ free' = free + getsize(store, PathAt(h))
            /\ removed' = removed \cup {h}
       ELSE UNCHANGED <<store, free, removed>>
    /\ task' = [task EXCEPT ![h] = "done"]
    /\ UNCHANGED <<logvars, args, mainvars, queue, ioFailures, store0,
                   resume, submitted, written, stopAt, interruptAt>>

Next ==
    \/ Start
    \/ RepairStep
    \/ RepairWait
    \/ GenCheck
    \/ GenSubmit
    \/ GenRecord
    \/ Interrupt
    \/ InterruptOutside
    \/ Drain
    \/ \E h \in Heights : TaskStart(h)
    \/ \E h \in Heights : TaskWrite(h)
    \/ \E h \in Heights : TaskWriteFail(h)
    \/ \E h \in Heights : TaskFinish(h)

Spec == Init /\ [][Next]_vars

TypeOK ==
    /\ pc \in {"idle", "start", "repair", "repair_wait", "gen_check",
               "gen_submit", "gen_record", "drain", "done",
               "raised_ioerror", "raised_interrupt"}
    /\ shard_num \in 0 .. target_height
    /\ last_height \in 0 .. target_height
    /\ Len(queue) <= QueueCap
    /\ active_count <= workers

(* ------------------------------- audit --------------------------------- *)
\* number of audit calls followed in one behaviour
MaxAudits == 2

\* the size of an existing file is not looked at
shard_ok_exists_only(st, path) == exists(st, path)
\* line 227: os.path.exists(path) and os.path.getsize(path) == shard_size
shard_ok(st, path) == exists(st, path) /\ getsize(st, path) = shard_size

RECURSIVE block_complete(_, _, _)
\* lines 225-229: the loop over seeds[(block_pos * block_size):], from index i
block_complete(st, seeds, i) ==
    IF i > Len(seeds) THEN TRUE
    ELSE IF ~shard_ok(st, _get_shard_path(seeds[i])) THEN FALSE
    ELSE block_complete(st, seeds, i + 1)

\* the digest of a file replaces what was accumulated instead of extending it
audit_hash_append_overwrite(audit_hash, data) == sha256(data)
\* line 236: audit_hash += hashlib.sha256(file.read()).hexdigest()
audit_hash_append(audit_hash, data) == audit_hash \o sha256(data)

RECURSIVE audit_response(_, _, _, _)
\* lines 232-236: the second loop over the same slice, from index i
audit_response(st, seeds, i, audit_hash) ==
    IF i > Len(seeds) THEN audit_hash
    ELSE audit_response(st, seeds, i + 1,
            audit_hash_append(audit_hash, st[_get_shard_path(seeds[i])]))

\* Builder.audit, given the oracle's height: the failure value 0, or a digest
audit(st, btc_index) ==
    LET block_pos == block_pos_of(btc_index)
        block_size == BlockSize
        seeds == build_seeds((block_pos + 1) * block_size)
        first == (block_pos * block_size) + 1
    IN  IF ~block_complete(st, seeds, first)
        THEN [failed |-> TRUE, hash |-> <<>>]
        ELSE [failed |-> FALSE,
              hash |-> sha256(audit_response(st, seeds, first, <<>>))]

\* a shard file as anything may have left it: also with foreign content
AuditFileStates(h) ==
    <<NoFile, Complete(h), Truncated(SeedAt(h)), Corrupted(SeedAt(h))>>

\* the stores audit may find: anything in [0, target_height), nothing above
AuditStores ==
    {[path \in Paths |->
        IF HeightOf(path) \in Heights
        THEN AuditFileStates(HeightOf(path))[kind[HeightOf(path)]]
        ELSE NoFile] : kind \in [Heights -> 1 .. 4]}

InitAudit ==
    /\ store \in AuditStores
    /\ free = min_free_size
    /\ workers = 1
    /\ cleanup = FALSE
    /\ rebuild = FALSE
    /\ repair = FALSE
    /\ pc = "idle"
    /\ shard_num = 0
    /\ last_height = 0
    /\ generated = {}
    /\ returned = EmptyDict
    /\ progress = <<>>
    /\ queue = <<>>
    /\ task = [h \in Heights |-> "none"]
    /\ file_hash = [h \in Heights |-> NoHash]
    /\ ioFailures = 0
    /\ store0 = store
    /\ resume = -1
    /\ submitted = <<>>
    /\ written = {}
    /\ removed = {}
    /\ stopAt = -1
    /\ interruptAt = -1
    /\ audit_log = <<>>
    /\ call_log = <<>>
    /\ NoTransfer
    /\ cache_file = NoCache

\* a call of audit while the oracle reports btc_index
Audit(btc_index) ==
    /\ pc = "idle"
    /\ Len(audit_log) < MaxAudits
    /\ audit_log' = Append(audit_log, [btc_index |-> btc_index,
                                       st |-> store,
                                       result |-> audit(store, btc_index)])
    /\ UNCHANGED <<speedvars, call_log, cache_file, args, mainvars,
                   poolvars, envvars, histvars>>

\* between two audits, something replaces, damages or removes one shard file
AlterShard(h) ==
    /\ pc = "idle"
    /\ Len(audit_log) = 1
    /\ store = audit_log[1].st
    /\ \E kind \in 1 .. 4 :
        /\ AuditFileStates(h)[kind] # store[PathAt(h)]
        /\ store' = [store EXCEPT ![PathAt(h)] = AuditFileStates(h)[kind]]
    /\ UNCHANGED <<logvars, args, mainvars, poolvars, free, ioFailures,
                   histvars>>

NextAudit ==
    \/ \E btc_index \in OracleHeights : Audit(btc_index)
    \/ \E h \in AllHeights : AlterShard(h)

SpecAudit == InitAudit /\ [][NextAudit]_vars

(* --------------------- calls outside a build run ----------------------- *)
\* no build is running and the pool does not exist
NoBuild ==
    /\ free = min_free_size
    /\ workers = 1
    /\ cleanup = FALSE
    /\ rebuild = FALSE
    /\ repair = FALSE
    /\ pc = "idle"
    /\ shard_num = 0
    /\ last_height = 0
    /\ generated = {}
    /\ returned = EmptyDict
    /\ progress = <<>>
    /\ queue = <<>>
    /\ task = [h \in Heights |-> "none"]
    /\ file_hash = [h \in Heights |-> NoHash]
    /\ ioFailures = 0
    /\ resume = -1
    /\ submitted = <<>>
    /\ written = {}
    /\ removed = {}
    /\ stopAt = -1
    /\ interruptAt = -1
    /\ audit_log = <<>>

\* everything but the log of calls
buildvars == <<args, mainvars, poolvars, envvars, histvars>>

(* ----------------------- build_seeds, build_seed ----------------------- *)
\* largest height handed to build_seeds and build_seed
MaxSeedHeight == 4
\* number of calls followed in one behaviour
MaxCalls == 3

InitSeeds ==
    /\ NoBuild
    /\ store = [path \in Paths |-> NoFile]
    /\ store0 = store
    /\ call_log = <<>>
    /\ NoTransfer
    /\ cache_file = NoCache

\* a call of build_seeds(height)
BuildSeeds(height) ==
    /\ Len(call_log) < MaxCalls
    /\ call_log' = Append(call_log, [op |-> "build_seeds",
                                     height |-> height,
                                     result |-> build_seeds(height)])
    /\ UNCHANGED <<speedvars, audit_log, cache_file, buildvars>>

\* a call of build_seed(height); the seed is logged as a list of one
BuildSeed(height) ==
    /\ Len(call_log) < MaxCalls
    /\ call_log' = Append(call_log, [op |-> "build_seed",
                                     height |-> height,
                                     result |-> <<build_seed(height)>>])
    /\ UNCHANGED <<speedvars, audit_log, cache_file, buildvars>>

NextSeeds ==
    \/ \E height \in 0 .. MaxSeedHeight : BuildSeeds(height)
    \/ \E height \in 0 .. MaxSeedHeight : BuildSeed(height)

SpecSeeds == InitSeeds /\ [][NextSeeds]_vars

(* --------------------------- clean, checkup ---------------------------- *)
\* os.remove(path): the file is gone, or OSError when there is none
os_remove(st, path) ==
    IF exists(st, path)
    THEN [st |-> [st EXCEPT ![path] = NoFile], raised |-> FALSE]
    ELSE [st |-> st, raised |-> TRUE]

\* lines 184-186 without the test of os.path.exists
clean_step_unguarded(r, path) == os_remove(r.st, path)

\* lines 184-186: if os.path.exists(path): os.remove(path)
clean_step(r, path) ==
    IF exists(r.st, path) THEN os_remove(r.st, path) ELSE r

RECURSIVE clean_loop(_, _, _)
\* lines 183-186: the loop over the seeds, left by an exception
clean_loop(r, seeds, i) ==
    IF i > Len(seeds) \/ r.raised
    THEN r
    ELSE clean_loop(clean_step(r, _get_shard_path(seeds[i])), seeds, i + 1)

\* Builder.clean: the store it leaves and whether it raised
clean(st) ==
    clean_loop([st |-> st, raised |-> FALSE], build_seeds(target_height), 1)

\* the stores clean and checkup are called on: anything in [0,
\* target_height), and possibly the shard of a bigger farmer just above
CleanStores ==
    {[path \in Paths |->
        IF HeightOf(path) \in Heights
        THEN FileStates(HeightOf(path))[kind[HeightOf(path)]]
        ELSE IF HeightOf(path) = target_height /\ above
             THEN Complete(HeightOf(path))
             ELSE NoFile] : kind \in [Heights -> 1 .. 3], above \in BOOLEAN}

\* bytes held by the files of a store
RECURSIVE UsedBytes(_, _)
UsedBytes(st, paths) ==
    IF paths = {}
    THEN 0
    ELSE LET path == CHOOSE any \in paths : TRUE
         IN  getsize(st, path) + UsedBytes(st, paths \ {path})

InitStore ==
    /\ NoBuild
    /\ store \in CleanStores
    /\ store0 = store
    /\ call_log = <<>>
    /\ NoTransfer
    /\ cache_file = NoCache

\* a call of checkup(store_path)
Checkup ==
    /\ Len(call_log) < MaxCalls
    /\ store' = store
    /\ call_log' = Append(call_log, [op |-> "checkup",
                                     before |-> store,
                                     after |-> store',
                                     result |-> checkup(store),
                                     raised |-> FALSE])
    /\ UNCHANGED <<speedvars, audit_log, cache_file, args, mainvars,
                   poolvars, free, ioFailures, histvars>>

\* a call of clean(store_path)
Clean ==
    /\ Len(call_log) < MaxCalls
    /\ store' = clean(store).st
    /\ free' = free + UsedBytes(store, Paths) - UsedBytes(store', Paths)
    /\ call_log' = Append(call_log, [op |-> "clean",
                                     before |-> store,
                                     after |-> store',
                                     result |-> TRUE,
                                     raised |-> clean(store).raised])
    /\ UNCHANGED <<speedvars, audit_log, cache_file, args, mainvars,
                   poolvars, ioFailures, histvars>>

\* a call of filter_to_resume_point(store_path, enum_seeds)
ResumePoint ==
    /\ Len(call_log) < MaxCalls
    /\ store' = store
    /\ call_log' = Append(call_log,
           [op |-> "filter_to_resume_point",
            before |-> store,
            after |-> store',
            result |-> filter_to_resume_point(store, enum_seeds),
            raised |-> FALSE])
    /\ UNCHANGED <<speedvars, audit_log, cache_file, args, mainvars,
                   poolvars, free, ioFailures, histvars>>

NextStore ==
    \/ Checkup
    \/ Clean
    \/ ResumePoint

SpecStore == InitStore /\ [][NextStore]_vars

(* ------------------ bandwidth_test.speed_test_cached -------------------- *)
\* A JSON value found under a key of the cache object, by its type: t is
\* "missing" (no such key), "int", "float" (v is its integer part),
\* "numstr" (a string of digits), "str" (any other string), "null", "list".
Missing == [t |-> "missing", v |-> 0]
FieldValues ==
    {Missing, [t |-> "int", v |-> 1], [t |-> "float", v |-> 1],
     [t |-> "numstr", v |-> 1], [t |-> "str", v |-> 0],
     [t |-> "null", v |-> 0], [t |-> "list", v |-> 0]}

\* what the file at cache_path may hold: nothing ("absent"), text that is
\* not JSON ("garbage"), a JSON value that is not an object, or an object
CacheContents ==
    {[kind |-> k, download |-> Missing, upload |-> Missing] :
        k \in {"absent", "garbage", "null", "number", "string", "array"}}
    \cup {[kind |-> "object", download |-> d, upload |-> u] :
        d \in FieldValues, u \in FieldValues}

\* what speedtest() may return: two floats
Measurements ==
    {[download |-> [t |-> "float", v |-> d],
      upload |-> [t |-> "float", v |-> 3]] : d \in {2, 3}}

\* json.loads(content): ValueError on text that is not JSON
json_loads(content) == IF content.kind = "garbage" THEN "ValueError" ELSE "ok"

\* temp[key]: TypeError when temp is not a dict, KeyError when key is absent
getitem(temp, key) ==
    IF temp.kind # "object" THEN "TypeError"
    ELSE IF temp[key] = Missing THEN "KeyError"
    ELSE "ok"

\* int(x): ValueError on a string that is no integer, TypeError on None or a
\* list, the integer part of a float
int_raises(x) ==
    IF x.t \in {"null", "list"} THEN "TypeError"
    ELSE IF x.t = "str" THEN "ValueError"
    ELSE "ok"
int(x) == [t |-> "int", v |-> x.v]

\* lines 591-594: the body of the try block, statement by statement; exc is
\* the first exception raised, has_* tell which keys of results were set
load_results(content) ==
    LET e0 == json_loads(content)
        eD == IF e0 # "ok" THEN e0
              ELSE IF getitem(content, "download") # "ok"
                   THEN getitem(content, "download")
                   ELSE int_raises(content.download)
        eU == IF eD # "ok" THEN eD
              ELSE IF getitem(content, "upload") # "ok"
                   THEN getitem(content, "upload")
                   ELSE int_raises(content.upload)
    IN  [has_download |-> eD = "ok", has_upload |-> eU = "ok", exc |-> eU]

\* line 595: except (KeyError, ValueError): pass
caught(exc) == exc \in {"KeyError", "ValueError"}

\* json.dumps(results)
json_dumps(results) ==
    [kind |-> "object", download |-> results.download,
     upload |-> results.upload]

NoResults == [download |-> Missing, upload |-> Missing]

\* lines 599-606: measure, write the cache file, return the measurement
fresh_results(m) ==
    [raised |-> "none", measured |-> TRUE, file |-> json_dumps(m),
     results |-> m]

\* speed_test_cached when the file holds content and speedtest() would
\* return m: the exception that leaves it or "none", whether speedtest was
\* called, the file it leaves and the dict it returns
speed_test_cached(content, m) ==
    IF content.kind = "absent"
    THEN fresh_results(m)
    ELSE LET l == load_results(content)
         IN  IF l.exc # "ok" /\ ~caught(l.exc)
             THEN [raised |-> l.exc, measured |-> FALSE, file |-> content,
                   results |-> NoResults]
             ELSE IF ~l.has_upload \/ ~l.has_download
             THEN fresh_results(m)
             ELSE [raised |-> "none", measured |-> FALSE, file |-> content,
                   results |-> [download |-> int(content.download),
                                upload |-> int(content.upload)]]

InitCache ==
    /\ NoBuild
    /\ store = [path \in Paths |-> NoFile]
    /\ store0 = store
    /\ call_log = <<>>
    /\ NoTransfer
    /\ cache_file \in CacheContents

\* a call of speed_test_cached while speedtest() would return m
SpeedTestCached(m) ==
    /\ Len(call_log) < MaxCalls
    /\ cache_file' = speed_test_cached(cache_file, m).file
    /\ call_log' = Append(call_log,
           [op |-> "speed_test_cached",
            before |-> cache_file,
            after |-> cache_file',
            measured |-> speed_test_cached(cache_file, m).measured,
            raised |-> speed_test_cached(cache_file, m).raised,
            result |-> speed_test_cached(cache_file, m).results])
    /\ UNCHANGED <<speedvars, audit_log, buildvars>>

NextCache == \E m \in Measurements : SpeedTestCached(m)

SpecCache == InitCache /\ [][NextCache]_vars

(* ---------------- bandwidth_test.downloadSpeed / uploadSpeed ------------ *)
\* q = Queue(6)
QueueSize == 6
\* largest number of files (downloadSpeed) or sizes (uploadSpeed) handed in
MaxInputs == 9

\* thread.result once the consumer reads it: the bytes input i moved when
\* run() has returned, the 0 of the constructor while it has not
result(i) == IF i \in alive THEN 0 ELSE i

InitTransfer ==
    /\ NoBuild
    /\ store = [path \in Paths |-> NoFile]
    /\ store0 = store
    /\ call_log = <<>>
    /\ cache_file = NoCache
    /\ total_files \in 0 .. MaxInputs
    /\ q = <<>>
    /\ finished = <<>>
    /\ speed_pc = "start"
    /\ producer_pc = "idle"
    /\ consumer_pc = "idle"
    /\ file_idx = 0
    /\ thread = 0
    /\ alive = {}

\* prod_thread.start(); cons_thread.start()
SpeedStart ==
    /\ speed_pc = "start"
    /\ speed_pc' = "join"
    /\ producer_pc' = "loop"
    /\ consumer_pc' = "loop"
    /\ file_idx' = 1
    /\ UNCHANGED <<total_files, q, finished, thread, alive>>
    /\ UNCHANGED <<audit_log, call_log, cache_file, buildvars>>

\* producer: the loop header, thread = FileGetter(..); thread.start()
ProducerStart ==
    /\ producer_pc = "loop"
    /\ IF file_idx <= total_files
       THEN /\ alive' = alive \cup {file_idx}
            /\ producer_pc' = "put"
       ELSE /\ producer_pc' = "end"
            /\ UNCHANGED alive
    /\ UNCHANGED <<total_files, q, finished, speed_pc, consumer_pc,
                   file_idx, thread>>
    /\ UNCHANGED <<audit_log, call_log, cache_file, buildvars>>

\* producer: q.put(thread, True) does not wait for room
ProducerPut_no_block ==
    /\ producer_pc = "put"
    /\ q' = Append(q, file_idx)
    /\ file_idx' = file_idx + 1
    /\ producer_pc' = "loop"
    /\ UNCHANGED <<total_files, finished, speed_pc, consumer_pc, thread,
                   alive>>
    /\ UNCHANGED <<audit_log, call_log, cache_file, buildvars>>

\* producer: q.put(thread, True) blocks while the queue is full
ProducerPut ==
    /\ producer_pc = "put"
    /\ Len(q) < QueueSize
    /\ q' = Append(q, file_idx)
    /\ file_idx' = file_idx + 1
    /\ producer_pc' = "loop"
    /\ UNCHANGED <<total_files, finished, speed_pc, consumer_pc, thread,
                   alive>>
    /\ UNCHANGED <<audit_log, call_log, cache_file, buildvars>>

\* consumer: while len(finished) < total: thread = q.get(True), which blocks
\* while the queue is empty
ConsumerGet ==
    /\ consumer_pc = "loop"
    /\ IF Len(finished) < total_files
       THEN /\ q # <<>>
            /\ thread' = Head(q)
            /\ q' = Tail(q)
            /\ consumer_pc' = "join"
       ELSE /\ consumer_pc' = "end"
            /\ UNCHANGED <<q, thread>>
    /\ UNCHANGED <<total_files, finished, speed_pc, producer_pc, file_idx,
                   alive>>
    /\ UNCHANGED <<audit_log, call_log, cache_file, buildvars>>

\* consumer: join the thread until it is no longer alive, append its result
ConsumerCollect ==
    /\ consumer_pc = "join"
    /\ thread \notin alive
    /\ finished' = Append(finished, result(thread))
    /\ thread' = 0
    /\ consumer_pc' = "loop"
    /\ UNCHANGED <<total_files, q, speed_pc, producer_pc, file_idx, alive>>
    /\ UNCHANGED <<audit_log, call_log, cache_file, buildvars>>

\* run() of the transfer thread of input i returns
TransferEnd(i) ==
    /\ i \in alive
    /\ alive' = alive \ {i}
    /\ UNCHANGED <<total_files, q, finished, speed_pc, producer_pc,
                   consumer_pc, file_idx, thread>>
    /\ UNCHANGED <<audit_log, call_log, cache_file, buildvars>>

\* both helper threads have ended: the joins return and the speed is returned
SpeedReturn ==
    /\ speed_pc = "join"
    /\ producer_pc = "end"
    /\ consumer_pc = "end"
    /\ speed_pc' = "returned"
    /\ UNCHANGED <<total_files, q, finished, producer_pc, consumer_pc,
                   file_idx, thread, alive>>
    /\ UNCHANGED <<audit_log, call_log, cache_file, buildvars>>

NextTransfer ==
    \/ SpeedStart
    \/ ProducerStart
    \/ ProducerPut
    \/ ConsumerGet
    \/ ConsumerCollect
    \/ \E i \in 1 .. MaxInputs : TransferEnd(i)
    \/ SpeedReturn

\* every thread that can take a step is scheduled sooner or later, and every
\* transfer thread terminates
FairTransfer ==
    /\ WF_vars(SpeedStart)
    /\ WF_vars(ProducerStart)
    /\ WF_vars(ProducerPut)
    /\ WF_vars(ConsumerGet)
    /\ WF_vars(ConsumerCollect)
    /\ \A i \in 1 .. MaxInputs : WF_vars(TransferEnd(i))
    /\ WF_vars(SpeedReturn)

SpecTransfer == InitTransfer /\ [][NextTransfer]_vars /\ FairTransfer

(* ======================= properties of build =========================== *)
\* the store build was called on holds exactly the shards of [0, N)
Prefix0(N) == \A h \in Heights : exists(store0, PathAt(h)) <=> h < N
AllExist0 == \A h \in Heights : exists(store0, PathAt(h))
AllComplete0 == \A h \in Heights : store0[PathAt(h)] = Complete(h)
\* every shard of [0, target_height) is complete except the one at height k
OneDamaged0(k) ==
    \A h \in Heights : (store0[PathAt(h)] = Complete(h)) <=> (h # k)
SubmittedHeights == {submitted[i][2] : i \in 1 .. Len(submitted)}
Completed == {h \in Heights : task[h] = "done"}
LastReport == progress[Len(progress)]

\* C1: called with rebuild = false and repair = false on a store that holds
\* exactly the shards of [0, N), build computes the resume point N, the
\* first task it submits is the shard of height N, and no task writes a
\* shard of a height below N.
C1_Resume ==
    \A N \in 0 .. target_height :
        (Prefix0(N) /\ ~rebuild /\ ~repair /\ pc # "start")
        => /\ resume = N
           /\ submitted # <<>> => submitted[1] = <<"generate", N>>
           /\ \A h \in written : h >= N

C1_Witness ==
    /\ pc = "done"
    /\ Prefix0(1) /\ ~rebuild /\ ~repair
    /\ Len(submitted) >= 2
    /\ written # {}

\* C2: a run with repair = true, rebuild = false, cleanup = false that met
\* no IOError, no free-space stop and no interrupt returns with every shard
\* of [0, target_height) present with exactly shard_size bytes, so that
\* checkup returns true, whatever the store was when build was called.
C2_RepairPostcondition ==
    (/\ pc = "done"
     /\ repair /\ ~rebuild /\ ~cleanup
     /\ ioFailures = 0 /\ stopAt = -1 /\ interruptAt = -1)
    => /\ \A h \in Heights :
            /\ exists(store, PathAt(h))
            /\ getsize(store, PathAt(h)) = shard_size
       /\ checkup(store)

C2_Witness ==
    /\ pc = "done"
    /\ repair /\ ~rebuild /\ ~cleanup
    /\ ioFailures = 0 /\ stopAt = -1 /\ interruptAt = -1
    /\ \E h \in Heights : h < resume /\ store0[PathAt(h)] = Truncated(SeedAt(h))
    /\ \E h \in Heights : h >= resume /\ store0[PathAt(h)] = NoFile
    /\ checkup(store)

\* C3 (as claimed): when exactly one shard, at height k, of a complete
\* store was deleted or truncated, a run with repair = true and
\* rebuild = false submits and writes the shard of height k only.
C3_RepairFrame ==
    \A k \in Heights :
        (OneDamaged0(k) /\ repair /\ ~rebuild)
        => /\ written \subseteq {k}
           /\ SubmittedHeights \subseteq {k}

\* C4 (as claimed): when every shard of [0, target_height) exists, a run
\* with rebuild = false submits nothing, writes and removes nothing and
\* returns an empty dict.
C4_IdempotentWhenAllExist ==
    (AllExist0 /\ ~rebuild)
    => /\ submitted = <<>>
       /\ written = {} /\ removed = {}
       /\ store = store0
       /\ generated = {}
       /\ pc = "done" => DOMAIN returned = {}

\* C4 (amended): when every shard of [0, target_height) exists and, if
\* repair = true, has exactly shard_size bytes, a run with rebuild = false
\* submits nothing, leaves the store as it was and returns an empty dict.
C4_Idempotent ==
    (AllExist0 /\ (repair => AllComplete0) /\ ~rebuild)
    => /\ submitted = <<>>
       /\ written = {} /\ removed = {}
       /\ store = store0
       /\ generated = {}
       /\ pc = "done" => DOMAIN returned = {}

C4_Witness ==
    /\ pc = "done"
    /\ AllExist0 /\ ~AllComplete0 /\ ~repair /\ ~rebuild
    /\ progress = <<<<target_height, TRUE>>>>

\* C5: when the free-space check of line 147 fails at height h, build
\* leaves the loop without an error (it goes on to wait_completion with
\* last_height = h), never submits a shard of a height >= h, and, when it
\* returns, every submitted task has completed, the dict returned has the
\* keys accumulated so far and the last callback is (h, True).
C5_StopState ==
    stopAt # -1
    => /\ pc \in {"drain", "done", "raised_ioerror", "raised_interrupt"}
       /\ last_height = stopAt
       /\ \A h \in SubmittedHeights : h < stopAt
       /\ pc = "done"
          => /\ \A h \in SubmittedHeights : task[h] = "done"
             /\ DOMAIN returned = generated
             /\ LastReport = <<stopAt, TRUE>>

C5_StopStep ==
    /\ (pc = "gen_check" /\ BelowFloor) => pc' # "gen_submit"
    /\ (stopAt = -1 /\ stopAt' # -1)
       => /\ pc = "gen_check" /\ BelowFloor
          /\ stopAt' = shard_num
          /\ pc' = "drain"

C5_DiskSpaceThrottling == [](C5_StopState) /\ [][C5_StopStep]_vars

C5_Witness ==
    /\ pc = "done"
    /\ stopAt = 1
    /\ Len(submitted) = 1
    /\ LastReport = <<1, TRUE>>

\* C6 (as claimed): no task, of the repair pass or of the generating
\* phase, is submitted at a moment when
\* free - shard_size * (active_count + 1) < min_free_size.
C6_FreeSpaceFloor ==
    [][Len(submitted') > Len(submitted) => ~BelowFloor]_vars

\* C9 (as claimed, for a run that is not interrupted): the dict build
\* returns has one entry for every shard generated during the run, the
\* repair pass included, keyed by the seed and holding the SHA-256 of the
\* shard, and no other entry.
C9_BuildResult ==
    (pc = "done" /\ interruptAt = -1)
    => /\ DOMAIN returned = {SeedAt(h) : h \in Completed}
       /\ \A seed \in DOMAIN returned :
            returned[seed] = sha256(genfile(seed, shard_size))

\* C10 (as claimed): after an interrupt in the generating phase build
\* returns, the completed shards and their entries are kept, and the height
\* L of the last callback is flagged finished, every height of
\* [resume point, L) has a completed shard, and L is at most the number of
\* shards completed.
C10_Cancellation ==
    (pc = "done" /\ interruptAt # -1)
    => LET L == LastReport[1]
           first == IF rebuild THEN 0 ELSE resume
       IN  /\ LastReport[2] = TRUE
           /\ \A h \in Completed : SeedAt(h) \in DOMAIN returned
           /\ ~cleanup => \A h \in Completed : store[PathAt(h)] = Complete(h)
           /\ \A h \in first .. (L - 1) : h \in Completed
           /\ L <= first + Cardinality(Completed \ (0 .. (first - 1)))

\* C11 (as claimed): a shard file whose size is not shard_size when build is
\* called is regenerated to exactly shard_size bytes by an undisturbed run
\* with rebuild = false, be it a plain resume run or a repair run.
C11_TruncatedRegenerated ==
    (/\ pc = "done"
     /\ ~rebuild /\ ~cleanup
     /\ ioFailures = 0 /\ stopAt = -1 /\ interruptAt = -1)
    => \A h \in Heights :
        store0[PathAt(h)] = Truncated(SeedAt(h))
        => store[PathAt(h)] = Complete(h)

\* C12, in one state: genfile is called at most twice for a shard, so a run
\* sees at most two IOErrors; after the first the task is on its one retry;
\* after the second the task has failed and the error has left build, which
\* therefore never returns a result that skips the shard; a task that
\* finished, retried or not, produced the hash of the complete shard.
C12_RetryState ==
    /\ ioFailures <= 2
    /\ \A h \in Heights :
        /\ task[h] = "retry" => ioFailures = 1
        /\ task[h] = "failed" <=> (ioFailures = 2 /\ h \in written
                                   /\ store[PathAt(h)] = Truncated(SeedAt(h)))
        /\ task[h] = "failed" => pc = "raised_ioerror"
        /\ task[h] = "done" => file_hash[h] = sha256(Complete(h))
    /\ ioFailures = 2 => (pc = "raised_ioerror" /\ \E h \in Heights :
                                                      task[h] = "failed")
    /\ pc = "done" => \A h \in SubmittedHeights : task[h] = "done"

\* C12, in one step: once the error has left build no height is enqueued,
\* no progress is reported and nothing is returned
C12_RetryStep ==
    pc = "raised_ioerror"
    => /\ pc' = pc
       /\ submitted' = submitted
       /\ progress' = progress
       /\ returned' = returned

ShardReports == SelectSeq(progress, LAMBDA r : ~r[2])

\* the heights enqueued by the loop of line 145, in order
GenerateSubmits == SelectSeq(submitted, LAMBDA e : e[1] = "generate")

\* C13, in one step: a call on_generate_shard(h + 1, False) is made when the
\* task of height h has written, read back and hashed its shard
C13_ReportStep ==
    (/\ Len(progress') = Len(progress) + 1
     /\ ~progress'[Len(progress')][2])
    => task[progress'[Len(progress')][1] - 1] = "done"

\* C13, in one state: when build has returned, the calls with finished =
\* false are one per shard enqueued by the generating loop, in its order,
\* and their heights ascend strictly
C13_ReportState ==
    /\ \A i, j \in 1 .. Len(ShardReports) :
        i < j => ShardReports[i][1] < ShardReports[j][1]
    /\ pc = "done"
       => /\ Len(ShardReports) = Len(GenerateSubmits)
          /\ \A i \in 1 .. Len(ShardReports) :
              ShardReports[i][1] = GenerateSubmits[i][2] + 1

\* C13 (as claimed): per-shard progress -- every call with (h + 1, finished
\* = false) comes after shard h has completed, once per shard enqueued in
\* the generating phase, in strictly ascending order of height.
C13_PerShardProgress == [](C13_ReportState) /\ [][C13_ReportStep]_vars

\* the calls on_generate_shard(n, True) made so far
FinalReports == SelectSeq(progress, LAMBDA r : r[2])

\* no task is queued or running
Settled == queue = <<>> /\ \A h \in Heights : task[h] \in {"none", "done"}

\* C14, in one state: there is at most one call with finished = true, it is
\* the last call made, and build has returned exactly when it has been made,
\* with no task of the pool outstanding
C14_FinalState ==
    /\ Len(FinalReports) <= 1
    /\ Len(FinalReports) = 1 <=> pc = "done"
    /\ pc = "done" => /\ progress[Len(progress)][2]
                      /\ Settled

\* C14, in one step: the call with finished = true is made when every task
\* handed to the pool has settled, and build returns with it
C14_FinalStep ==
    Len(progress') > Len(progress) /\ progress'[Len(progress')][2]
    => /\ Settled
       /\ \A h \in SubmittedHeights : task[h] = "done"
       /\ pc # "done" /\ pc' = "done"

\* C14: final progress report -- a run of build that returns calls the
\* callback with finished = true exactly once, after every call with
\* finished = false and after all tasks of the pool have settled, and
\* returns only after that call.
C14_FinalReport == [](C14_FinalState) /\ [][C14_FinalStep]_vars

\* build has returned after per-shard reports and the final one
C14_Witness ==
    /\ pc = "done"
    /\ Len(progress) >= 3
    /\ written # {}

\* the logged calls of one operation
CallsOf(op) == {i \in 1 .. Len(call_log) : call_log[i].op = op}

\* C15: seed chain -- build_seeds(n) returns n seeds, the first the hash of
\* the address and each next one the hash of the one before; build_seeds(n)
\* is a prefix of build_seeds(m) for n <= m, so calls with the same height
\* return the same list; build_seed(h) is element h of build_seeds(h + 1).
C15_SeedChain ==
    /\ \A i \in CallsOf("build_seeds") :
        LET n == call_log[i].height
            seeds == call_log[i].result
        IN  /\ Len(seeds) = n
            /\ n >= 1 => seeds[1] = sha256(address)
            /\ \A k \in 1 .. (n - 1) : seeds[k + 1] = sha256(seeds[k])
    /\ \A i, j \in CallsOf("build_seeds") :
        call_log[i].height <= call_log[j].height
        => call_log[i].result
               = SubSeq(call_log[j].result, 1, call_log[i].height)
    /\ \A i \in CallsOf("build_seed") : \A j \in CallsOf("build_seeds") :
        call_log[j].height = call_log[i].height + 1
        => call_log[i].result[1] = call_log[j].result[call_log[j].height]

\* build_seeds was called with two heights above 1 and build_seed with the
\* height of the last seed of the longer list
C15_Witness ==
    /\ Len(call_log) = 3
    /\ call_log[1].op = "build_seeds" /\ call_log[1].height = 2
    /\ call_log[2].op = "build_seeds"
    /\ call_log[2].height = MaxSeedHeight
    /\ call_log[3].op = "build_seed"
    /\ call_log[3].height = MaxSeedHeight - 1

\* C16: checkup returns true exactly when every height of [0,
\* target_height) has a file at its path, whatever the size of the file, and
\* leaves the store as it found it.
C16_Checkup ==
    \A i \in CallsOf("checkup") :
        /\ call_log[i].result
             = (\A h \in Heights : call_log[i].before[PathAt(h)] # NoFile)
        /\ call_log[i].after = call_log[i].before
        /\ ~call_log[i].raised

\* checkup returned true on a store that holds a shard cut short
C16_Witness ==
    \E i \in CallsOf("checkup") :
        /\ call_log[i].result
        /\ \E h \in Heights :
            call_log[i].before[PathAt(h)] = Truncated(SeedAt(h))

\* C17: clean returns without an error whether or not shards are absent,
\* leaves no file at the path of any height of [0, target_height), leaves
\* every other file as it was, and a second clean changes nothing more.
C17_Clean ==
    \A i \in CallsOf("clean") :
        /\ ~call_log[i].raised
        /\ \A h \in Heights : call_log[i].after[PathAt(h)] = NoFile
        /\ \A path \in Paths :
            HeightOf(path) \notin Heights
            => call_log[i].after[path] = call_log[i].before[path]
        /\ (i > 1 /\ call_log[i - 1].op = "clean")
           => call_log[i].after = call_log[i].before

\* clean ran twice on a store that had a shard absent, a shard present and a
\* file above the range
C17_Witness ==
    /\ Len(call_log) >= 2
    /\ call_log[1].op = "clean" /\ call_log[2].op = "clean"
    /\ \E h \in Heights : call_log[1].before[PathAt(h)] = NoFile
    /\ \E h \in Heights : call_log[1].before[PathAt(h)] # NoFile
    /\ call_log[1].before[PathAt(target_height)] # NoFile

\* the cache file holds an object whose two fields are numbers
CacheValid(content) ==
    /\ content.kind = "object"
    /\ content.download.t \in {"int", "float", "numstr"}
    /\ content.upload.t \in {"int", "float", "numstr"}

\* C18 (as claimed): bandwidth cache -- on a cache file whose download and
\* upload fields are numbers speed_test_cached returns those values, takes
\* no measurement and leaves the file alone; in every other case it
\* measures, writes the measurement to the file and returns it; it never
\* raises.
C18_BandwidthCache ==
    \A i \in CallsOf("speed_test_cached") :
        LET e == call_log[i]
        IN  /\ e.raised = "none"
            /\ CacheValid(e.before)
               => /\ ~e.measured
                  /\ e.after = e.before
                  /\ e.result.download.v = e.before.download.v
                  /\ e.result.upload.v = e.before.upload.v
            /\ ~CacheValid(e.before)
               => /\ e.measured
                  /\ e.result \in Measurements
                  /\ e.after = json_dumps(e.result)

\* when build was called some height had no file below a height that had one
GapAtStart ==
    \E g, h \in Heights :
        g < h /\ ~exists(store0, PathAt(g)) /\ exists(store0, PathAt(h))

\* when build was called every height the bisection can probe first or
\* later, from the middle of the range up, had a file
UpperHalfPresent0 ==
    \A h \in Heights : h >= target_height \div 2 => exists(store0, PathAt(h))

\* C19: undetected gap -- called with rebuild = false and repair = false on
\* a store whose shards are not a contiguous prefix, build returns normally
\* with the final report made, yet every height that was absent below the
\* resume point it computed is still absent; when the upper half of the
\* range is present the resume point is target_height, nothing is
\* generated and checkup returns false on the store build leaves.
C19_UndetectedGap ==
    (pc = "done" /\ ~rebuild /\ ~repair /\ GapAtStart)
    => /\ LastReport[2]
       /\ \A g \in Heights :
            (g < resume /\ ~exists(store0, PathAt(g)))
            => ~exists(store, PathAt(g))
       /\ UpperHalfPresent0
          => /\ resume = target_height
             /\ submitted = <<>>
             /\ ~checkup(store)

\* a run that met no error, no stop and no interrupt generated the shards
\* above its resume point, reported target_height as finished, and left a
\* gap: checkup returns false
C19_Witness ==
    /\ pc = "done" /\ ~rebuild /\ ~repair /\ ~cleanup
    /\ GapAtStart
    /\ ioFailures = 0 /\ stopAt = -1 /\ interruptAt = -1
    /\ written # {}
    /\ LastReport = <<target_height, TRUE>>
    /\ ~checkup(store)

\* the store build was called on holds the complete shards of [0, N) and
\* nothing above
CompletePrefix0(N) ==
    \A h \in Heights :
        store0[PathAt(h)] = (IF h < N THEN Complete(h) ELSE NoFile)

\* C20: the reported height is a watermark -- a run with cleanup = false
\* that started from a contiguous prefix of complete shards and ended by
\* finishing the range or by the free-space stop reports with the finished
\* flag a height L such that every shard of [0, L) exists with shard_size
\* bytes and no shard of a height >= L was written by the run.
C20_Watermark ==
    (/\ pc = "done"
     /\ ~cleanup
     /\ interruptAt = -1
     /\ \E N \in 0 .. target_height : CompletePrefix0(N))
    => /\ LastReport[2]
       /\ \A h \in Heights :
            h < LastReport[1]
            => /\ exists(store, PathAt(h))
               /\ getsize(store, PathAt(h)) = shard_size
       /\ \A h \in written : h < LastReport[1]

\* a run that started from the shards of [0, 1), wrote some more and was
\* stopped by the free-space test short of target_height
C20_Witness ==
    /\ pc = "done" /\ ~cleanup /\ ~rebuild
    /\ CompletePrefix0(1)
    /\ stopAt # -1
    /\ written # {}
    /\ LastReport[1] < target_height

\* the heights enqueued by the repair pass, in order
RepairSubmits == SelectSeq(submitted, LAMBDA e : e[1] = "repair")

\* C21: submission order -- the tasks of the repair pass and the tasks of
\* the generating phase are each submitted in strictly ascending order of
\* height, no repair task is submitted after a generating task, and when
\* the first generating task is submitted every task of the repair pass has
\* completed.
C21_SubmissionOrder ==
    /\ \A i, j \in 1 .. Len(submitted) :
        i < j
        => /\ submitted[i][1] = submitted[j][1]
              => submitted[i][2] < submitted[j][2]
           /\ ~(submitted[i][1] = "generate" /\ submitted[j][1] = "repair")
    /\ GenerateSubmits # <<>>
       => \A i \in 1 .. Len(RepairSubmits) :
            task[RepairSubmits[i][2]] = "done"

\* two repair tasks were submitted, then a generating task
C21_Witness ==
    /\ Len(RepairSubmits) >= 2
    /\ GenerateSubmits # <<>>

\* C22: resume-point search on any store -- whatever files exist,
\* filter_to_resume_point returns an r in [0, target_height] with r = 0 or
\* a file at height r - 1, and r = target_height or no file at height r; it
\* leaves the store as it found it.
C22_ResumePointAnyStore ==
    \A i \in CallsOf("filter_to_resume_point") :
        LET r == call_log[i].result
            st == call_log[i].before
        IN  /\ r \in 0 .. target_height
            /\ r = 0 \/ st[PathAt(r - 1)] # NoFile
            /\ r = target_height \/ st[PathAt(r)] = NoFile
            /\ call_log[i].after = st
            /\ ~call_log[i].raised

\* the search ran on a store with a gap and stopped inside the range
C22_Witness ==
    \E i \in CallsOf("filter_to_resume_point") :
        /\ call_log[i].result \in 1 .. (target_height - 1)
        /\ \E g, h \in Heights :
            /\ g < h
            /\ call_log[i].before[PathAt(g)] = NoFile
            /\ call_log[i].before[PathAt(h)] # NoFile

\* with rebuild = true no resume point is computed, no repair task is
\* submitted, and the heights are enqueued from 0 upward without a gap
RebuildFromZero ==
    /\ resume = -1
    /\ RepairSubmits = <<>>
    /\ \A i \in 1 .. Len(submitted) : submitted[i] = <<"generate", i - 1>>

\* the thread of build has left the loop of line 145 for good
LoopLeft == pc \in {"drain", "done", "raised_interrupt", "raised_ioerror"}

\* C23 (as claimed): rebuild -- with rebuild = true, whatever repair is and
\* whatever shards exist, build computes no resume point, runs no repair
\* pass and enqueues every height from 0 upward in order; it stops
\* enqueuing only at target_height, at a failed free-space check or at an
\* interrupt.
C23_RebuildAsClaimed ==
    rebuild
    => /\ RebuildFromZero
       /\ LoopLeft
          => \/ Len(submitted) = target_height
             \/ stopAt # -1
             \/ interruptAt # -1

\* C23 (amended): as above, and the enqueuing also stops when the second
\* IOError of a shard write ends the pass.
C23_Rebuild ==
    rebuild
    => /\ RebuildFromZero
       /\ LoopLeft
          => \/ Len(submitted) = target_height
             \/ stopAt # -1
             \/ interruptAt # -1
             \/ pc = "raised_ioerror"

\* a rebuild with repair = true over a store that already held every shard
\* enqueued the whole range again
C23_Witness ==
    /\ rebuild /\ repair
    /\ AllComplete0
    /\ pc = "done"
    /\ Len(submitted) = target_height
    /\ written = Heights

\* transfer threads started and not yet collected by the consumer
Started == IF producer_pc = "put" THEN file_idx ELSE Max(file_idx - 1, 0)
Outstanding == Started - Len(finished)

\* C24, in one state: the queue holds at most 6 threads, at most 8 threads
\* are started and not collected, the results collected so far are those of
\* the first inputs in order, one each, and the function has returned only
\* with one result per input
C24_TransferState ==
    /\ Len(q) <= QueueSize
    /\ Outstanding <= QueueSize + 2
    /\ Len(finished) <= total_files
    /\ \A k \in 1 .. Len(finished) : finished[k] = k
    /\ speed_pc = "returned" => Len(finished) = total_files

\* C24: bandwidth producer / consumer -- the queue never holds more than 6
\* transfer threads and the producer waits while it is full, so at most 8
\* threads are started and not collected; the consumer collects one result
\* per input in the order of submission; and, every transfer thread
\* terminating, the function returns.
C24_ProducerConsumer ==
    /\ [](C24_TransferState)
    /\ <>(speed_pc = "returned")

\* 8 threads started and not collected: 6 queued, one held by the producer
\* waiting for room, one being joined by the consumer
C24_Witness ==
    /\ Outstanding = QueueSize + 2
    /\ Len(q) = QueueSize
    /\ producer_pc = "put"
    /\ consumer_pc = "join"

(* ======================= properties of audit =========================== *)
\* the heights of the block the oracle height selects
BlockHeights(btc_index) ==
    (block_pos_of(btc_index) * BlockSize)
        .. ((block_pos_of(btc_index) + 1) * BlockSize - 1)

RECURSIVE ConcatDigests(_, _, _)
\* the digests of the files of heights lo .. hi of a store, lowest first
ConcatDigests(st, lo, hi) ==
    IF lo > hi THEN <<>>
    ELSE ConcatDigests(st, lo, hi - 1) \o sha256(st[PathAt(hi)])

ExpectedProof(st, btc_index) ==
    sha256(ConcatDigests(st, block_pos_of(btc_index) * BlockSize,
                         (block_pos_of(btc_index) + 1) * BlockSize - 1))

BadShard(st, h) ==
    st[PathAt(h)] = NoFile \/ Len(st[PathAt(h)]) # shard_size

\* C7: audit returns the failure value exactly when some shard of the
\* block [block_pos * block_size, (block_pos + 1) * block_size), with
\* block_pos = btc_index mod 1000, is absent or has a size other than
\* shard_size; it then produces no hash, also when the whole block lies
\* above target_height.
C7_AuditFailure ==
    \A i \in 1 .. Len(audit_log) :
        LET e == audit_log[i]
        IN  /\ e.result.failed
                <=> \E h \in BlockHeights(e.btc_index) : BadShard(e.st, h)
            /\ e.result.failed => e.result.hash = <<>>
            /\ ~e.result.failed => e.result.hash # <<>>

C7_Witness ==
    /\ Len(audit_log) = 2
    /\ audit_log[1].result.failed
    /\ \A h \in BlockHeights(audit_log[1].btc_index) :
            h >= target_height /\ audit_log[1].st[PathAt(h)] = NoFile
    /\ audit_log[2].result.failed
    /\ \E h \in BlockHeights(audit_log[2].btc_index) :
            audit_log[2].st[PathAt(h)] = Truncated(SeedAt(h))
    /\ \E h \in BlockHeights(audit_log[2].btc_index) :
            audit_log[2].st[PathAt(h)] = Complete(h)

\* C8: when every shard of the block is present with shard_size bytes,
\* audit returns the hash of the concatenation, in ascending height order,
\* of the hex digests of the block's shard files; two audits at the same
\* oracle height return the same value when the block's files are the same
\* and different values when the content of a file of the block differs.
C8_AuditProof ==
    /\ \A i \in 1 .. Len(audit_log) :
        LET e == audit_log[i]
        IN  ~e.result.failed
            => e.result.hash = ExpectedProof(e.st, e.btc_index)
    /\ \A i, j \in 1 .. Len(audit_log) :
        LET a == audit_log[i]
            b == audit_log[j]
        IN  (/\ a.btc_index = b.btc_index
             /\ ~a.result.failed /\ ~b.result.failed)
            => (a.result.hash = b.result.hash
                <=> \A h \in BlockHeights(a.btc_index) :
                        a.st[PathAt(h)] = b.st[PathAt(h)])

C8_Witness ==
    /\ Len(audit_log) = 2
    /\ audit_log[1].btc_index = audit_log[2].btc_index
    /\ ~audit_log[1].result.failed /\ ~audit_log[2].result.failed
    /\ audit_log[1].result.hash # audit_log[2].result.hash
    /\ LET first == BlockSize * block_pos_of(audit_log[1].btc_index)
       IN  audit_log[1].st[PathAt(first)] = audit_log[2].st[PathAt(first)]

====
